---- MODULE Spec2Model ----
(***************************************************************************)
(* connector-x: the MySQL source (MysqlSource, MysqlSourcePartition,       *)
(* MysqlSourcePartitionParser) and the arrow destination's ArrowAssoc.     *)
(*                                                                         *)
(* Three state machines share the module:                                  *)
(*   Spec          the Source: set_queries, set_data_order, buf_size,      *)
(*                 fetch_metadata, partition, and the drop of a partition  *)
(*   SpecPartition one SourcePartition and its parser: prepare, parser,    *)
(*                 produce<T>, produce<Option<T>>                          *)
(*   SpecArrow     ArrowAssoc: builder, append, field                      *)
(* The database, the SQL rewriting helpers and the connection pool are     *)
(* the environment: their answers are fixtures drawn in Init or inputs of  *)
(* the actions.                                                            *)
(***************************************************************************)
EXTENDS Integers, Sequences, FiniteSets, TLC

VARIABLES
    db,         \* per query: what its LIMIT 1 probe answers
    nconn,      \* max_size of the pool
    pool_out,   \* connections of the pool that are checked out
    src,        \* the MysqlSource: queries, names, schema, buf_size
    src_state,  \* "live" | "consumed" (partition(self) moves the Source)
    parts,      \* the Vec<MysqlSourcePartition> that partition() returned
    result,     \* what the last Source operation returned
    refetch,    \* the last two operations were fetch_metadata, same return
    tbl,        \* the partition's query: its LIMIT, the rows it yields
    part,       \* the MysqlSourcePartition
    parser,     \* the MysqlSourcePartitionParser (or NoParser)
    produced,   \* cells the parser has returned so far, in call order
    pres,       \* what the last partition/parser operation returned
    assoc       \* ArrowAssoc: the native type, its builder, its field

vars == <<db, nconn, pool_out, src, src_state, parts, result, refetch,
          tbl, part, parser, produced, pres, assoc>>

srcVars == <<db, nconn, pool_out, src, src_state, parts, result, refetch>>
partVars == <<tbl, part, parser, produced, pres>>
arrowVars == <<assoc>>

----------------------------------------------------------------------------
(* Bounds *)

MaxQueries == 2      \* queries given to set_queries
MaxConn == 2         \* pool sizes 1..MaxConn
MaxSrcBuf == 1       \* buf_size 0..MaxSrcBuf given to the Source
MaxBuf == 3          \* buf_size 0..MaxBuf of the partition
MaxRows == 3         \* rows of the partition's table
MaxCols == 2         \* columns of the partition's schema
MaxAppend == 2       \* values appended to a builder

(* Program constants *)

DefaultBufSize == 32

----------------------------------------------------------------------------
(* Helpers *)

SeqsUpTo(S, n) == UNION {[1..k -> S] : k \in 0..n}

Min(a, b) == IF a <= b THEN a ELSE b

Range(s) == {s[i] : i \in DOMAIN s}

----------------------------------------------------------------------------
(* Results: Ok, an error, or a panic *)

Ok == [status |-> "Ok", kind |-> "None", arg |-> ""]

Err(kind, arg) == [status |-> "Err", kind |-> kind, arg |-> arg]

Panic(kind) == [status |-> "Panic", kind |-> kind, arg |-> ""]

NoResult == [status |-> "None", kind |-> "None", arg |-> ""]

\* What an operation returned, with the operation's name.
Returned(op, ret) == [op |-> op, ret |-> ret]

----------------------------------------------------------------------------
(* The database as the Source sees it *)

\* The query texts the caller has.
QueryTexts == {"q1", "q2"}

\* What limit1_query + query_first do for one query:
\*   "row"         Ok(Some(row))
\*   "zero"        Ok(None)
\*   "err"         Err(e): the driver fails
\*   "rewrite_err" limit1_query itself fails (the query does not parse)
ProbeOutcomes == {"row", "zero", "err", "rewrite_err"}

\* The columns of each query's result, as the driver reports them.
Columns(q) ==
    CASE q = "q1" -> << [name |-> "id", column_type |-> "MYSQL_TYPE_LONGLONG"],
                        [name |-> "name", column_type |-> "MYSQL_TYPE_VAR_STRING"] >>
      [] OTHER -> << [name |-> "id", column_type |-> "MYSQL_TYPE_LONG"],
                     [name |-> "at", column_type |-> "MYSQL_TYPE_DATETIME"],
                     [name |-> "price", column_type |-> "MYSQL_TYPE_DOUBLE"] >>

\* MysqlTypeSystem: a variant and its nullability bit.
VarChar(nullable) == [ty |-> "VarChar", nullable |-> nullable]

\* MysqlTypeSystem::from(&ColumnType): it sees the column type alone.
MysqlTypeSystemFrom(column_type) ==
    CASE column_type = "MYSQL_TYPE_LONGLONG" -> [ty |-> "LongLong", nullable |-> TRUE]
      [] column_type = "MYSQL_TYPE_LONG" -> [ty |-> "Long", nullable |-> TRUE]
      [] column_type = "MYSQL_TYPE_DOUBLE" -> [ty |-> "Double", nullable |-> TRUE]
      [] column_type = "MYSQL_TYPE_DATETIME" -> [ty |-> "Datetime", nullable |-> TRUE]
      [] OTHER -> VarChar(TRUE)

\* The nullability bit of a type-system value.
IsNullable(t) == t.nullable

----------------------------------------------------------------------------
(* MysqlSource *)

\* .map(|col| (name, MysqlTypeSystem::from(type))).unzip() over a probed row
ProbedNames(cols) == [i \in DOMAIN cols |-> cols[i].name]

ProbedTypes(cols) == [i \in DOMAIN cols |-> MysqlTypeSystemFrom(cols[i].column_type)]

\* .map(|col| (name, VarChar(false))).unzip() over the described columns
DescribedNames(cols) == [i \in DOMAIN cols |-> cols[i].name]

DescribedTypes(cols) == [i \in DOMAIN cols |-> VarChar(FALSE)]

\* MysqlSource::new
MysqlSource_new ==
    [queries |-> <<>>, names |-> <<>>, schema |-> <<>>, buf_size |-> DefaultBufSize]

\* The locals of fetch_metadata before its loop; ret is the early return of `?`.
ProbeStart(s) ==
    [names |-> s.names, schema |-> s.schema, success |-> FALSE,
     zero_tuple |-> TRUE, error |-> "", ret |-> NoResult]

\* ProbeStep with a slip: only the first driver error is kept.
ProbeStepKeepsFirstError(acc, q) ==
    IF acc.ret # NoResult THEN acc
    ELSE IF db[q] = "rewrite_err"
        THEN [acc EXCEPT !.ret = Err("SQLParserError", q)]
    ELSE IF db[q] = "row"
        THEN [acc EXCEPT !.names = ProbedNames(Columns(q)),
                         !.schema = ProbedTypes(Columns(q)),
                         !.success = TRUE,
                         !.zero_tuple = FALSE]
    ELSE IF db[q] = "zero"
        THEN acc
    ELSE [acc EXCEPT !.error = IF acc.error = "" THEN q ELSE acc.error,
                     !.zero_tuple = FALSE]

\* ProbeStep with a slip: the probed types are not stored.
ProbeStepNamesOnly(acc, q) ==
    IF acc.ret # NoResult THEN acc
    ELSE IF db[q] = "rewrite_err"
        THEN [acc EXCEPT !.ret = Err("SQLParserError", q)]
    ELSE IF db[q] = "row"
        THEN [acc EXCEPT !.names = ProbedNames(Columns(q)),
                         !.success = TRUE,
                         !.zero_tuple = FALSE]
    ELSE IF db[q] = "zero"
        THEN acc
    ELSE [acc EXCEPT !.error = q, !.zero_tuple = FALSE]

\* ProbeStep with a slip: the probed columns are pushed onto names and
\* schema instead of replacing them.
ProbeStepExtends(acc, q) ==
    IF acc.ret # NoResult THEN acc
    ELSE IF db[q] = "rewrite_err"
        THEN [acc EXCEPT !.ret = Err("SQLParserError", q)]
    ELSE IF db[q] = "row"
        THEN [acc EXCEPT !.names = acc.names \o ProbedNames(Columns(q)),
                         !.schema = acc.schema \o ProbedTypes(Columns(q)),
                         !.success = TRUE,
                         !.zero_tuple = FALSE]
    ELSE IF db[q] = "zero"
        THEN acc
    ELSE [acc EXCEPT !.error = q, !.zero_tuple = FALSE]

\* ProbeStep with a slip: a driver error takes back an earlier success.
ProbeStepErrorClearsSuccess(acc, q) ==
    IF acc.ret # NoResult THEN acc
    ELSE IF db[q] = "rewrite_err"
        THEN [acc EXCEPT !.ret = Err("SQLParserError", q)]
    ELSE IF db[q] = "row"
        THEN [acc EXCEPT !.names = ProbedNames(Columns(q)),
                         !.schema = ProbedTypes(Columns(q)),
                         !.success = TRUE,
                         !.zero_tuple = FALSE]
    ELSE IF db[q] = "zero"
        THEN acc
    ELSE [acc EXCEPT !.error = q, !.success = FALSE, !.zero_tuple = FALSE]

\* One iteration of `for query in &self.queries`.
ProbeStep(acc, q) ==
    IF acc.ret # NoResult THEN acc
    ELSE IF db[q] = "rewrite_err"
        THEN [acc EXCEPT !.ret = Err("SQLParserError", q)]
    ELSE IF db[q] = "row"
        THEN [acc EXCEPT !.names = ProbedNames(Columns(q)),
                         !.schema = ProbedTypes(Columns(q)),
                         !.success = TRUE,
                         !.zero_tuple = FALSE]
    ELSE IF db[q] = "zero"
        THEN acc
    ELSE [acc EXCEPT !.error = q, !.zero_tuple = FALSE]

RECURSIVE ProbeLoop(_, _)
ProbeLoop(acc, qs) ==
    IF qs = <<>> THEN acc ELSE ProbeLoop(ProbeStep(acc, Head(qs)), Tail(qs))

\* After the loop: `if !success { if zero_tuple { describe } else { throw } }`.
ProbeFinish(acc, queries, describeOk) ==
    IF acc.ret # NoResult THEN acc
    ELSE IF acc.success THEN [acc EXCEPT !.ret = Ok]
    ELSE IF acc.zero_tuple
        THEN IF describeOk
             THEN [acc EXCEPT !.names = DescribedNames(Columns(queries[1])),
                              !.schema = DescribedTypes(Columns(queries[1])),
                              !.ret = Ok]
             ELSE [acc EXCEPT !.ret = Err("MysqlError", queries[1])]
    ELSE [acc EXCEPT !.ret = Err("Other_LastError", acc.error)]

\* DataOrder
DataOrders == {"RowMajor", "ColumnMajor"}

\* const DATA_ORDERS: the data orders the Source supports.
DATA_ORDERS == {"RowMajor"}

\* set_data_order with a slip: the order is not looked at.
set_data_orderAcceptsAll(data_order) ==
    /\ src_state = "live"
    /\ result' = Returned("set_data_order", Ok)
    /\ refetch' = FALSE
    /\ UNCHANGED <<db, nconn, pool_out, src, src_state, parts>>

set_data_order(data_order) ==
    /\ src_state = "live"
    /\ result' = Returned("set_data_order",
                          IF data_order # "RowMajor"
                          THEN Err("UnsupportedDataOrder", data_order)
                          ELSE Ok)
    /\ refetch' = FALSE
    /\ UNCHANGED <<db, nconn, pool_out, src, src_state, parts>>

set_queries(qs) ==
    /\ src_state = "live"
    /\ src' = [src EXCEPT !.queries = qs]
    /\ result' = Returned("set_queries", Ok)
    /\ refetch' = FALSE
    /\ UNCHANGED <<db, nconn, pool_out, src_state, parts>>

buf_size(n) ==
    /\ src_state = "live"
    /\ src' = [src EXCEPT !.buf_size = n]
    /\ result' = Returned("buf_size", Ok)
    /\ refetch' = FALSE
    /\ UNCHANGED <<db, nconn, pool_out, src_state, parts>>

\* fetch_metadata: poolOk is whether pool.get() hands out a connection (it is
\* dropped again when the call returns), describeOk whether query_iter works.
fetch_metadata(poolOk, describeOk) ==
    /\ src_state = "live"
    /\ IF src.queries = <<>>
       THEN /\ result' = Returned("fetch_metadata", Panic("assert"))
            /\ UNCHANGED src
       ELSE IF ~poolOk \/ Cardinality(pool_out) >= nconn
       THEN /\ result' = Returned("fetch_metadata", Err("PoolError", ""))
            /\ UNCHANGED src
       ELSE LET acc == ProbeFinish(ProbeLoop(ProbeStart(src), src.queries),
                                   src.queries, describeOk)
            IN /\ src' = [src EXCEPT !.names = acc.names, !.schema = acc.schema]
               /\ result' = Returned("fetch_metadata", acc.ret)
    /\ refetch' = (result.op = "fetch_metadata" /\ result'.ret = result.ret)
    /\ UNCHANGED <<db, nconn, pool_out, src_state, parts>>

\* r2d2 Pool::get on a pool of max_size nconn: an idle connection, or 0 for
\* the pool's error (none idle before the timeout, or no connection made).
PoolGet(out, ok) ==
    IF ok /\ Cardinality(out) < nconn
    THEN CHOOSE c \in (1..nconn) \ out : \A d \in (1..nconn) \ out : c <= d
    ELSE 0

\* MysqlSourcePartition::new with a slip: nrows and ncols are swapped.
MysqlSourcePartition_newSwapped(conn, query, schema, bufsz) ==
    [conn |-> conn, query |-> query, schema |-> schema,
     nrows |-> Len(schema), ncols |-> 0, buf_size |-> bufsz]

\* MysqlSourcePartition::new
MysqlSourcePartition_new(conn, query, schema, bufsz) ==
    [conn |-> conn, query |-> query, schema |-> schema,
     nrows |-> 0, ncols |-> Len(schema), buf_size |-> bufsz]

\* PartitionFail with a slip: the partitions built so far are returned.
PartitionFailPartial(ret, out) == [ret |-> ret, out |-> out, res |-> Ok]

\* What pool.get()? leaves when it fails: ret is dropped, its connections
\* go back to the pool, the error is returned.
PartitionFail(ret, out) ==
    [ret |-> <<>>, out |-> out \ {ret[j].conn : j \in DOMAIN ret},
     res |-> Err("PoolError", "")]

\* `for query in self.queries { let conn = self.pool.get()?; ret.push(..) }`
\* from the i-th query on; failAt is the get that fails for want of a
\* connection to the server (0: none does).
RECURSIVE PartitionLoop(_, _, _, _)
PartitionLoop(ret, out, i, failAt) ==
    IF i > Len(src.queries) THEN [ret |-> ret, out |-> out, res |-> Ok]
    ELSE LET conn == PoolGet(out, i # failAt)
         IN IF conn = 0
            THEN PartitionFail(ret, out)
            ELSE PartitionLoop(
                     Append(ret, MysqlSourcePartition_new(
                                     conn, src.queries[i], src.schema, src.buf_size)),
                     out \cup {conn}, i + 1, failAt)

partition(failAt) ==
    /\ src_state = "live"
    /\ LET r == PartitionLoop(<<>>, pool_out, 1, failAt)
       IN /\ parts' = r.ret
          /\ pool_out' = r.out
          /\ result' = Returned("partition", r.res)
    /\ src_state' = "consumed"
    /\ refetch' = FALSE
    /\ UNCHANGED <<db, nconn, src>>

\* Dropping the i-th returned partition returns its connection to the pool.
drop_partition(i) ==
    /\ src_state = "consumed"
    /\ i \in DOMAIN parts
    /\ parts[i].conn \in pool_out
    /\ pool_out' = pool_out \ {parts[i].conn}
    /\ result' = Returned("drop", Ok)
    /\ refetch' = FALSE
    /\ UNCHANGED <<db, nconn, src, src_state, parts>>

----------------------------------------------------------------------------
(* The partition's query and table, as the partition sees them *)

\* get_limit(&query): Some(n), None, or a parse error
LimitOutcomes ==
    {[kind |-> "Err", n |-> 0], [kind |-> "None", n |-> 0]}
        \cup {[kind |-> "Some", n |-> n] : n \in 0..(MaxRows + 1)}

\* Rows the query as written yields: the table's rows, cut by its LIMIT.
ResultRows(t) == IF t.limit.kind = "Some" THEN Min(t.limit.n, t.rows) ELSE t.rows

\* tbl: limit is what get_limit answers, rows the rows the query matches
\* without its LIMIT, err_at the item at which the driver's row iterator
\* fails (0: it never fails).
Tables ==
    {t \in [limit : LimitOutcomes, rows : 0..MaxRows, err_at : 0..MaxRows] :
        t.err_at <= ResultRows(t)}

\* Whether the cell at row r, column c (both from 0) is SQL NULL.
NullCell(r, c) == (r + c) % 3 = 2

\* The value of a cell that is not NULL.
CellValue(r, c) == 10 * r + c

\* What prepare's COUNT(*) does: count_query may fail to rewrite, the query
\* may fail, or return no row, or return the count.
CountOutcomes == {"ok", "rewrite_err", "query_err", "no_row"}

\* Results of the partition's and the parser's operations: issued is the
\* number of queries the call sent on the partition's connection, value
\* what produce returned.
NoValue == [kind |-> "Nothing", v |-> 0]

PReturned(op, ret, issued, value) ==
    [op |-> op, ret |-> ret, issued |-> issued, value |-> value]

----------------------------------------------------------------------------
(* MysqlSourcePartition *)

\* PrepareOutcome with a slip: the LIMIT is not looked at.
PrepareOutcomeAlwaysCounts(p, count) ==
    IF count = "rewrite_err"
        THEN [nrows |-> p.nrows, ret |-> Err("SQLParserError", p.query), issued |-> 0]
    ELSE IF count = "query_err"
        THEN [nrows |-> p.nrows, ret |-> Err("MysqlError", p.query), issued |-> 1]
    ELSE IF count = "no_row"
        THEN [nrows |-> p.nrows, ret |-> Err("Other_NoCount", p.query), issued |-> 1]
    ELSE [nrows |-> tbl.rows, ret |-> Ok, issued |-> 1]

\* prepare: [nrows, ret, issued] from the partition and the count's outcome.
PrepareOutcome(p, count) ==
    IF tbl.limit.kind = "Err"
        THEN [nrows |-> p.nrows, ret |-> Err("SQLParserError", p.query), issued |-> 0]
    ELSE IF tbl.limit.kind = "Some"
        THEN [nrows |-> tbl.limit.n, ret |-> Ok, issued |-> 0]
    ELSE IF count = "rewrite_err"
        THEN [nrows |-> p.nrows, ret |-> Err("SQLParserError", p.query), issued |-> 0]
    ELSE IF count = "query_err"
        THEN [nrows |-> p.nrows, ret |-> Err("MysqlError", p.query), issued |-> 1]
    ELSE IF count = "no_row"
        THEN [nrows |-> p.nrows, ret |-> Err("Other_NoCount", p.query), issued |-> 1]
    ELSE [nrows |-> tbl.rows, ret |-> Ok, issued |-> 1]

NoParser ==
    [alive |-> "none", iter |-> [pos |-> 0, done |-> FALSE], buf_size |-> 0,
     rowbuf |-> <<>>, ncols |-> 0, current_col |-> 0, current_row |-> 0]

\* MysqlSourcePartitionParser::new over a fresh row iterator
MysqlSourcePartitionParser_new(schema, bufsz) ==
    [alive |-> "live", iter |-> [pos |-> 0, done |-> FALSE], buf_size |-> bufsz,
     rowbuf |-> <<>>, ncols |-> Len(schema), current_col |-> 0, current_row |-> 0]

\* prepare takes &mut self: no parser borrows the partition.
prepare(count) ==
    /\ parser.alive = "none"
    /\ LET o == PrepareOutcome(part, count)
       IN /\ part' = [part EXCEPT !.nrows = o.nrows]
          /\ pres' = PReturned("prepare", o.ret, o.issued, NoValue)
    /\ UNCHANGED <<tbl, parser, produced>>

\* parser(): query_iter starts the query; ok is whether the driver does.
new_parser(ok) ==
    /\ parser.alive = "none"
    /\ IF ok
       THEN /\ parser' = MysqlSourcePartitionParser_new(part.schema, part.buf_size)
            /\ pres' = PReturned("parser", Ok, 1, NoValue)
       ELSE /\ parser' = NoParser
            /\ pres' = PReturned("parser", Err("MysqlError", part.query), 1, NoValue)
    /\ produced' = <<>>
    /\ UNCHANGED <<tbl, part>>

\* The parser goes out of scope; the partition can be borrowed again.
drop_parser ==
    /\ parser.alive # "none"
    /\ parser' = NoParser
    /\ pres' = PReturned("drop", Ok, 0, NoValue)
    /\ UNCHANGED <<tbl, part, produced>>

----------------------------------------------------------------------------
(* MysqlSourcePartitionParser *)

\* self.iter.next(): the next row (rows are numbered from 0), an error at
\* item err_at, after which the iterator is finished, or None at the end.
IterNext(it) ==
    IF it.done
        THEN [kind |-> "None", row |-> 0, iter |-> it]
    ELSE IF tbl.err_at = it.pos + 1
        THEN [kind |-> "Err", row |-> 0, iter |-> [pos |-> it.pos + 1, done |-> TRUE]]
    ELSE IF it.pos >= ResultRows(tbl)
        THEN [kind |-> "None", row |-> 0, iter |-> [it EXCEPT !.done = TRUE]]
    ELSE [kind |-> "Row", row |-> it.pos, iter |-> [it EXCEPT !.pos = it.pos + 1]]

\* Refill with a slip: the range is inclusive, `0..=self.buf_size`.
RECURSIVE RefillLoop(_, _)
RefillLoop(p, k) ==
    IF k = 0 THEN [p |-> p, err |-> FALSE]
    ELSE LET n == IterNext(p.iter)
             q == [p EXCEPT !.iter = n.iter]
         IN CASE n.kind = "Row" -> RefillLoop([q EXCEPT !.rowbuf = Append(p.rowbuf, n.row)], k - 1)
              [] n.kind = "Err" -> [p |-> q, err |-> TRUE]
              [] OTHER -> [p |-> q, err |-> FALSE]

RefillInclusive(p, k) == RefillLoop(p, k + 1)

\* `for _ in 0..self.buf_size { .. }` with k iterations left: pushes rows
\* until the iterator ends, or `item?` returns its error.
RECURSIVE Refill(_, _)
Refill(p, k) ==
    IF k = 0 THEN [p |-> p, err |-> FALSE]
    ELSE LET n == IterNext(p.iter)
             q == [p EXCEPT !.iter = n.iter]
         IN CASE n.kind = "Row" -> Refill([q EXCEPT !.rowbuf = Append(p.rowbuf, n.row)], k - 1)
              [] n.kind = "Err" -> [p |-> q, err |-> TRUE]
              [] OTHER -> [p |-> q, err |-> FALSE]

\* Advance with a slip: the row steps on `current_col / ncols`.
AdvanceOffByOne(p) ==
    IF p.ncols = 0
    THEN [p |-> [p EXCEPT !.alive = "panicked"], ret |-> Panic("division by zero"),
          loc |-> <<0, 0>>]
    ELSE [p |-> [p EXCEPT !.current_row = p.current_row + (p.current_col \div p.ncols),
                          !.current_col = (p.current_col + 1) % p.ncols],
          ret |-> Ok,
          loc |-> <<p.current_row, p.current_col>>]

\* Advance with a slip: the column is not wrapped at the end of a row.
AdvanceNoWrap(p) ==
    IF p.ncols = 0
    THEN [p |-> [p EXCEPT !.alive = "panicked"], ret |-> Panic("division by zero"),
          loc |-> <<0, 0>>]
    ELSE [p |-> [p EXCEPT !.current_row = p.current_row + ((p.current_col + 1) \div p.ncols),
                          !.current_col = p.current_col + 1],
          ret |-> Ok,
          loc |-> <<p.current_row, p.current_col>>]

\* The end of next_loc: return the position and step to the next cell.
\* With ncols = 0 the division panics.
Advance(p) ==
    IF p.ncols = 0
    THEN [p |-> [p EXCEPT !.alive = "panicked"], ret |-> Panic("division by zero"),
          loc |-> <<0, 0>>]
    ELSE [p |-> [p EXCEPT !.current_row = p.current_row + ((p.current_col + 1) \div p.ncols),
                          !.current_col = (p.current_col + 1) % p.ncols],
          ret |-> Ok,
          loc |-> <<p.current_row, p.current_col>>]

\* Whether next_loc refills: `self.current_row >= self.rowbuf.len()`.
Underflow(p) == p.current_row >= Len(p.rowbuf)

\* next_loc with a slip: the buffer is not drained before the refill.
next_locNoDrain(p) ==
    IF Underflow(p)
    THEN LET f == Refill(p, p.buf_size)
         IN IF f.err
                THEN [p |-> f.p, ret |-> Err("MysqlError", ""), loc |-> <<0, 0>>]
            ELSE IF f.p.rowbuf = <<>>
                THEN [p |-> f.p, ret |-> Err("Other_EOF", ""), loc |-> <<0, 0>>]
            ELSE Advance([f.p EXCEPT !.current_row = 0, !.current_col = 0])
    ELSE Advance(p)

\* next_loc
next_loc(p) ==
    IF Underflow(p)
    THEN LET f == Refill([p EXCEPT !.rowbuf = <<>>], p.buf_size)
         IN IF f.err
                THEN [p |-> f.p, ret |-> Err("MysqlError", ""), loc |-> <<0, 0>>]
            ELSE IF f.p.rowbuf = <<>>
                THEN [p |-> f.p, ret |-> Err("Other_EOF", ""), loc |-> <<0, 0>>]
            ELSE Advance([f.p EXCEPT !.current_row = 0, !.current_col = 0])
    ELSE Advance(p)

\* Row::get(cidx) of the buffered row ridx: the value, or None for NULL.
RowGet(p, ridx, cidx) ==
    LET r == p.rowbuf[ridx + 1]
    IN IF NullCell(r, cidx)
       THEN [kind |-> "None", v |-> 0]
       ELSE [kind |-> "Some", v |-> CellValue(r, cidx)]

\* produce with a slip: produce::<T> turns an absent cell into T's default
\* instead of an error.
produceNoneAsDefault(option) ==
    /\ parser.alive = "live"
    /\ LET n == next_loc(parser)
           got == RowGet(n.p, n.loc[1], n.loc[2])
       IN /\ parser' = n.p
          /\ IF n.ret # Ok
             THEN /\ pres' = PReturned("produce", n.ret, 0, NoValue)
                  /\ UNCHANGED produced
             ELSE /\ produced' = Append(produced, <<n.p.rowbuf[n.loc[1] + 1], n.loc[2]>>)
                  /\ pres' = IF option
                             THEN PReturned("produce", Ok, 0, got)
                             ELSE IF got.kind = "None"
                                  THEN PReturned("produce", Ok, 0, [kind |-> "Some", v |-> 0])
                                  ELSE PReturned("produce", Ok, 0, got)
    /\ UNCHANGED <<tbl, part>>

\* produce::<T> (option = FALSE) and produce::<Option<T>> (option = TRUE)
produce(option) ==
    /\ parser.alive = "live"
    /\ LET n == next_loc(parser)
           got == RowGet(n.p, n.loc[1], n.loc[2])
       IN /\ parser' = n.p
          /\ IF n.ret # Ok
             THEN /\ pres' = PReturned("produce", n.ret, 0, NoValue)
                  /\ UNCHANGED produced
             ELSE /\ produced' = Append(produced, <<n.p.rowbuf[n.loc[1] + 1], n.loc[2]>>)
                  /\ pres' = IF option
                             THEN PReturned("produce", Ok, 0, got)
                             ELSE IF got.kind = "None"
                                  THEN PReturned("produce", Err("Other_GetNone", ""), 0, NoValue)
                                  ELSE PReturned("produce", Ok, 0, got)
    /\ UNCHANGED <<tbl, part>>

----------------------------------------------------------------------------
(* ArrowAssoc *)

\* The native types ArrowAssoc is implemented for, each also as Option<T>.
BuiltTypes == {"i32", "i64", "f64", "bool", "String"}

\* The native types whose implementation is unimplemented!().
UnbuiltTypes == {"DateTime<Utc>", "Date<Utc>"}

AssocTypes == [native : BuiltTypes \cup UnbuiltTypes, option : BOOLEAN]

Headers == {"id", "name"}

\* Field::new(name, data_type, nullable)
Field_new(name, data_type, nullable) ==
    [name |-> name, data_type |-> data_type, nullable |-> nullable]

\* <T as ArrowAssoc>::field(header), for the implemented types
ArrowField(ty, header) ==
    CASE ty.native = "i32" /\ ~ty.option -> Field_new(header, "UInt64", FALSE)
      [] ty.native = "i32" /\ ty.option -> Field_new(header, "UInt64", TRUE)
      [] ty.native = "i64" /\ ~ty.option -> Field_new(header, "Int64", FALSE)
      [] ty.native = "i64" /\ ty.option -> Field_new(header, "Int64", FALSE)
      [] ty.native = "f64" /\ ~ty.option -> Field_new(header, "Float64", FALSE)
      [] ty.native = "f64" /\ ty.option -> Field_new(header, "Float64", TRUE)
      [] ty.native = "bool" /\ ~ty.option -> Field_new(header, "Boolean", FALSE)
      [] ty.native = "bool" /\ ty.option -> Field_new(header, "Boolean", TRUE)
      [] ty.native = "String" /\ ~ty.option -> Field_new(header, "Utf8", FALSE)
      [] OTHER -> Field_new(header, "Utf8", TRUE)

\* type Builder of the implemented types
BuilderOf(ty) ==
    CASE ty.native = "i32" -> "Int32Builder"
      [] ty.native = "i64" -> "Int64Builder"
      [] ty.native = "f64" -> "Float64Builder"
      [] ty.native = "bool" -> "BooleanBuilder"
      [] OTHER -> "StringBuilder"

\* The arrow data type of the arrays an arrow builder finishes into.
BuilderDataType(kind) ==
    CASE kind = "Int32Builder" -> "Int32"
      [] kind = "Int64Builder" -> "Int64"
      [] kind = "Float64Builder" -> "Float64"
      [] kind = "BooleanBuilder" -> "Boolean"
      [] OTHER -> "Utf8"

\* <T as ArrowAssoc>::builder(nrows)
ArrowBuilder(ty, nrows) == [kind |-> BuilderOf(ty), capacity |-> nrows, values |-> <<>>]

\* <T as ArrowAssoc>::append(builder, value): append_value, append_option
\* or append_null push one slot.
ArrowAppend(ty, builder, value) == [builder EXCEPT !.values = Append(builder.values, value)]

\* The values of type T (kind "Some") and, for Option<T>, None.
ValuesOf(ty) ==
    {[kind |-> "Some", v |-> v] : v \in 1..2}
        \cup (IF ty.option THEN {[kind |-> "None", v |-> 0]} ELSE {})

NoAssoc ==
    [ty |-> [native |-> "i32", option |-> FALSE], builder |-> <<>>, field |-> <<>>,
     panicked |-> FALSE]

assoc_builder(nrows) ==
    /\ ~assoc.panicked
    /\ IF assoc.ty.native \in UnbuiltTypes
       THEN assoc' = [assoc EXCEPT !.panicked = TRUE]
       ELSE assoc' = [assoc EXCEPT !.builder = <<ArrowBuilder(assoc.ty, nrows)>>]

assoc_append(value) ==
    /\ ~assoc.panicked
    /\ assoc.builder # <<>>
    /\ Len(assoc.builder[1].values) < MaxAppend
    /\ assoc' = [assoc EXCEPT !.builder = <<ArrowAppend(assoc.ty, assoc.builder[1], value)>>]

assoc_field(header) ==
    /\ ~assoc.panicked
    /\ IF assoc.ty.native \in UnbuiltTypes
       THEN assoc' = [assoc EXCEPT !.panicked = TRUE]
       ELSE assoc' = [assoc EXCEPT !.field = <<ArrowField(assoc.ty, header)>>]

----------------------------------------------------------------------------
(* Specifications *)

SourceIdle ==
    /\ db = [q \in QueryTexts |-> "zero"]
    /\ nconn = 1
    /\ pool_out = {}
    /\ src = MysqlSource_new
    /\ src_state = "live"
    /\ parts = <<>>
    /\ result = Returned("new", Ok)
    /\ refetch = FALSE

PartitionIdle ==
    /\ tbl = [limit |-> [kind |-> "None", n |-> 0], rows |-> 0, err_at |-> 0]
    /\ part = MysqlSourcePartition_new(1, "q1", <<>>, 0)
    /\ parser = NoParser
    /\ produced = <<>>
    /\ pres = PReturned("new", Ok, 0, NoValue)

ArrowIdle == assoc = NoAssoc

Init ==
    /\ db \in [QueryTexts -> ProbeOutcomes]
    /\ nconn \in 1..MaxConn
    /\ pool_out = {}
    /\ src = MysqlSource_new
    /\ src_state = "live"
    /\ parts = <<>>
    /\ result = Returned("new", Ok)
    /\ refetch = FALSE
    /\ PartitionIdle
    /\ ArrowIdle

Next ==
    \/ \E o \in DataOrders : set_data_order(o) /\ UNCHANGED <<partVars, arrowVars>>
    \/ \E qs \in SeqsUpTo(QueryTexts, MaxQueries) : set_queries(qs) /\ UNCHANGED <<partVars, arrowVars>>
    \/ \E n \in 0..MaxSrcBuf : buf_size(n) /\ UNCHANGED <<partVars, arrowVars>>
    \/ \E poolOk, describeOk \in BOOLEAN : fetch_metadata(poolOk, describeOk) /\ UNCHANGED <<partVars, arrowVars>>
    \/ \E failAt \in 0..MaxQueries : partition(failAt) /\ UNCHANGED <<partVars, arrowVars>>
    \/ \E i \in 1..MaxQueries : drop_partition(i) /\ UNCHANGED <<partVars, arrowVars>>

Spec == Init /\ [][Next]_vars

\* One partition, as MysqlSourcePartition::new builds it, over its table.
Schemas == {[i \in 1..c |-> VarChar(TRUE)] : c \in 0..MaxCols}

InitPartition ==
    /\ tbl \in Tables
    /\ \E schema \in Schemas, b \in 0..MaxBuf :
          part = MysqlSourcePartition_new(1, "q1", schema, b)
    /\ parser = NoParser
    /\ produced = <<>>
    /\ pres = PReturned("new", Ok, 0, NoValue)
    /\ SourceIdle
    /\ ArrowIdle

NextPartition ==
    \/ \E count \in CountOutcomes : prepare(count) /\ UNCHANGED <<srcVars, arrowVars>>
    \/ \E ok \in BOOLEAN : new_parser(ok) /\ UNCHANGED <<srcVars, arrowVars>>
    \/ \E option \in BOOLEAN : produce(option) /\ UNCHANGED <<srcVars, arrowVars>>
    \/ drop_parser /\ UNCHANGED <<srcVars, arrowVars>>

SpecPartition == InitPartition /\ [][NextPartition]_vars

\* One native type and what ArrowAssoc builds for it.
InitArrow ==
    /\ \E ty \in AssocTypes :
          assoc = [ty |-> ty, builder |-> <<>>, field |-> <<>>, panicked |-> FALSE]
    /\ SourceIdle
    /\ PartitionIdle

NextArrow ==
    \/ \E nrows \in 0..MaxAppend : assoc_builder(nrows) /\ UNCHANGED <<srcVars, partVars>>
    \/ \E value \in ValuesOf(assoc.ty) : assoc_append(value) /\ UNCHANGED <<srcVars, partVars>>
    \/ \E header \in Headers : assoc_field(header) /\ UNCHANGED <<srcVars, partVars>>

SpecArrow == InitArrow /\ [][NextArrow]_vars

----------------------------------------------------------------------------
(* The Source's claims *)

\* fetch_metadata has run its loop over every stored query: a connection
\* was handed out and every query was rewritten and probed.
ProbedAll ==
    /\ result.op = "fetch_metadata"
    /\ result.ret.status # "Panic"
    /\ result.ret.kind # "PoolError"
    /\ \A i \in DOMAIN src.queries : db[src.queries[i]] # "rewrite_err"

RowQueries == {i \in DOMAIN src.queries : db[src.queries[i]] = "row"}

FailingQueries == {i \in DOMAIN src.queries : db[src.queries[i]] = "err"}

First(S) == CHOOSE i \in S : \A j \in S : i <= j

Last(S) == CHOOSE i \in S : \A j \in S : j <= i

\* C2: when some probe returns a row, fetch_metadata succeeds and names and
\* schema are those of the first query, in query order, whose probe
\* returned a row.
C2_FirstRowQueryWins ==
    (ProbedAll /\ RowQueries # {}) =>
        /\ result.ret = Ok
        /\ src.names = ProbedNames(Columns(src.queries[First(RowQueries)]))
        /\ src.schema = ProbedTypes(Columns(src.queries[First(RowQueries)]))

\* The describe of queries[0] did not fail.
Described == ProbedAll /\ result.ret.kind # "MysqlError"

\* C3: when every probe returns zero rows, fetch_metadata succeeds with the
\* column names of queries[0] in declared order and every column of the
\* schema the nullable string type.
C3_FallbackIsNullableString ==
    (Described /\ \A i \in DOMAIN src.queries : db[src.queries[i]] = "zero") =>
        /\ result.ret = Ok
        /\ src.names = DescribedNames(Columns(src.queries[1]))
        /\ Len(src.schema) = Len(src.names)
        /\ \A i \in DOMAIN src.schema :
              src.schema[i].ty = "VarChar" /\ IsNullable(src.schema[i])

\* C4: when no probe returns a row and some probe fails with a driver error,
\* fetch_metadata returns an error carrying the error of the last failing
\* query, and names and schema are not replaced by a describe.
C4_LastDriverErrorReported ==
    [][\A poolOk, describeOk \in BOOLEAN :
          (/\ fetch_metadata(poolOk, describeOk)
           /\ ProbedAll'
           /\ RowQueries = {}
           /\ FailingQueries # {})
          => /\ result'.ret = Err("Other_LastError", src.queries[Last(FailingQueries)])
             /\ src'.names = src.names
             /\ src'.schema = src.schema]_vars

\* C4's case: two failing queries, the error of the second is reported.
C4_Witness ==
    /\ ProbedAll
    /\ src.queries = <<"q1", "q2">>
    /\ db["q1"] = "err" /\ db["q2"] = "err"
    /\ result.ret = Err("Other_LastError", "q2")

\* C9: partition() returns one partition per query, in query order, each
\* with its own connection and the Source's schema and buf_size, or fails
\* with the pool's error and returns nothing; never more than nconn
\* connections are checked out.
C9_PartitionAllOrNothing ==
    /\ Cardinality(pool_out) <= nconn
    /\ result.op = "partition" =>
        IF result.ret = Ok
        THEN /\ Len(parts) = Len(src.queries)
             /\ \A i \in DOMAIN parts :
                   /\ parts[i].query = src.queries[i]
                   /\ parts[i].schema = src.schema
                   /\ parts[i].buf_size = src.buf_size
                   /\ parts[i].conn \in pool_out
                   /\ \A j \in DOMAIN parts : parts[j].conn = parts[i].conn => j = i
        ELSE /\ result.ret.kind = "PoolError"
             /\ parts = <<>>
             /\ pool_out = {}
    /\ (result.op = "partition" /\ Len(src.queries) > nconn) => result.ret.kind = "PoolError"

\* C9's case: two queries, two partitions, two connections.
C9_Witness ==
    /\ result = Returned("partition", Ok)
    /\ Len(parts) = 2
    /\ pool_out = {1, 2}

\* C10: names and schema always have the same length; after a successful
\* fetch_metadata both come from the column list of one query.
C10_NamesSchemaSameLength ==
    /\ Len(src.names) = Len(src.schema)
    /\ result = Returned("fetch_metadata", Ok) =>
          \E i \in DOMAIN src.queries :
              \/ /\ src.names = ProbedNames(Columns(src.queries[i]))
                 /\ src.schema = ProbedTypes(Columns(src.queries[i]))
              \/ /\ src.names = DescribedNames(Columns(src.queries[i]))
                 /\ src.schema = DescribedTypes(Columns(src.queries[i]))

\* C10's case: a fetch_metadata that succeeded and stored three columns.
C10_Witness ==
    /\ result = Returned("fetch_metadata", Ok)
    /\ Len(src.names) = 3
    /\ Len(src.schema) = 3

----------------------------------------------------------------------------
(* The partition's and the parser's claims *)

EOF == Err("Other_EOF", "")

\* The iterator has no further item.
IterExhausted(it) == IterNext(it).kind = "None"

\* C1: over a result of R rows and C >= 1 columns that the driver delivers
\* without error, and for buf_size >= 1, the k-th produce call reads the
\* cell at row k div C, column k mod C: every call before the R*C-th reads
\* a cell, in row-major order, none skipped and none read twice.
C1_RowMajorOrder ==
    (parser.alive = "live" /\ tbl.err_at = 0 /\ parser.buf_size >= 1 /\ parser.ncols >= 1) =>
        /\ \A k \in DOMAIN produced :
              produced[k] = <<(k - 1) \div parser.ncols, (k - 1) % parser.ncols>>
        /\ Len(produced) <= ResultRows(tbl) * parser.ncols
        /\ (pres.op = "produce" /\ pres.ret.kind \in {"Other_EOF", "MysqlError"}) =>
              Len(produced) = ResultRows(tbl) * parser.ncols

\* C1's case: 3 rows of 2 columns read through a buffer of 2 rows.
C1_Witness ==
    /\ parser.alive = "live" /\ tbl.err_at = 0
    /\ parser.buf_size = 2 /\ parser.ncols = 2
    /\ ResultRows(tbl) = 3
    /\ Len(produced) = 6
    /\ pres.op = "produce" /\ pres.ret.kind # "Other_EOF"

\* C5: prepare() on a query with LIMIT n sets nrows = n and issues no
\* query; without LIMIT it sets nrows to the COUNT(*) result, and when the
\* count fails or returns no row it returns an error and nrows is unchanged.
C5_PrepareRowCount ==
    [][\A count \in CountOutcomes :
          prepare(count) =>
            /\ tbl.limit.kind = "Some" =>
                  /\ part'.nrows = tbl.limit.n
                  /\ pres'.issued = 0
                  /\ pres'.ret = Ok
            /\ (tbl.limit.kind = "None" /\ count = "ok") =>
                  /\ part'.nrows = tbl.rows
                  /\ pres'.ret = Ok
            /\ (tbl.limit.kind = "None" /\ count # "ok") =>
                  /\ part'.nrows = part.nrows
                  /\ pres'.ret.status = "Err"]_vars

\* C5's case: LIMIT 2 over a table of 3 rows, prepared without a query.
C5_Witness ==
    /\ pres.op = "prepare" /\ pres.ret = Ok /\ pres.issued = 0
    /\ tbl.limit = [kind |-> "Some", n |-> 2]
    /\ tbl.rows = 3
    /\ part.nrows = 2

\* C6: once the iterator is exhausted and the buffer is used up, a produce
\* call empties the buffer and returns the EOF error; after an EOF error
\* every produce call returns it again; no cell is ever returned twice.
C6_EofIsFinal ==
    [][\A option \in BOOLEAN :
          produce(option) =>
            /\ (IterExhausted(parser.iter) /\ parser.current_row >= Len(parser.rowbuf)) =>
                  /\ pres'.ret = EOF
                  /\ parser'.rowbuf = <<>>
                  /\ produced' = produced
            /\ (pres.op = "produce" /\ pres.ret = EOF) => pres'.ret = EOF
            /\ produced' # produced =>
                  \A k \in DOMAIN produced : produced[k] # produced'[Len(produced')]]_vars

\* C6's case: all 6 cells of 3 rows were produced and the next call got EOF.
C6_Witness ==
    /\ pres.op = "produce" /\ pres.ret = EOF
    /\ parser.ncols = 2 /\ parser.buf_size = 2
    /\ Len(produced) = 6
    /\ parser.rowbuf = <<>>

\* C8: rowbuf never holds more than buf_size rows; the iterator is advanced
\* only by a produce call that finds current_row >= rowbuf.len(), and by at
\* most buf_size items.
C8_BufferBounded ==
    [][/\ Len(parser'.rowbuf) <= parser'.buf_size
       /\ parser'.iter.pos > parser.iter.pos =>
             /\ parser.alive = "live"
             /\ pres'.op = "produce"
             /\ parser.current_row >= Len(parser.rowbuf)
             /\ parser'.iter.pos - parser.iter.pos <= parser.buf_size]_vars

\* C8's case: the second refill of a buffer of 2 rows pulled the third row.
C8_Witness ==
    /\ parser.alive = "live"
    /\ parser.buf_size = 2
    /\ parser.rowbuf = <<2>>
    /\ parser.iter.pos = 3

----------------------------------------------------------------------------
(* ArrowAssoc's claims *)

\* C7: the field built for T is non-nullable and the field built for
\* Option<T> is nullable, for every type with an arrow builder.
C7_FieldNullability ==
    assoc.field # <<>> => assoc.field[1].nullable = assoc.ty.option

----------------------------------------------------------------------------
(* The Source's claims, continued *)

\* C11: fetch_metadata is idempotent: called again with the same stored
\* queries and the same answers of the database (so that it returns what
\* the call before it returned), it leaves names and schema as that call
\* left them.
C11_FetchMetadataIdempotent ==
    [][\A poolOk, describeOk \in BOOLEAN :
          (fetch_metadata(poolOk, describeOk) /\ refetch')
          => /\ src'.names = src.names
             /\ src'.schema = src.schema]_vars

\* C11's case: a second fetch_metadata in a row has succeeded on a query
\* whose probe returns a row.
C11_Witness ==
    /\ refetch
    /\ result = Returned("fetch_metadata", Ok)
    /\ RowQueries # {}
    /\ Len(src.names) = 2

\* C13: set_data_order(order) returns Ok exactly when order is one of
\* DATA_ORDERS, that is RowMajor, and UnsupportedDataOrder(order) otherwise;
\* either way queries, names, schema and buf_size stay as they were.
C13_DataOrderChecked ==
    [][\A o \in DataOrders :
          set_data_order(o)
          => /\ (result'.ret = Ok) <=> (o \in DATA_ORDERS)
             /\ o \notin DATA_ORDERS => result'.ret = Err("UnsupportedDataOrder", o)
             /\ DATA_ORDERS = {"RowMajor"}
             /\ src' = src]_vars

\* C13's case: a Source holding queries and fetched metadata has refused
\* the column-major order.
C13_Witness ==
    /\ result = Returned("set_data_order", Err("UnsupportedDataOrder", "ColumnMajor"))
    /\ src.queries # <<>>
    /\ src.names # <<>>

\* C14: a probe that fails with a driver error does not fail fetch_metadata
\* when the probe of another query, before or after it, returns a row: the
\* other queries are still probed, fetch_metadata returns Ok and names and
\* schema are the columns of a query whose probe returned a row. The
\* failures of the probes are returned only when no probe returned a row.
C14_ProbeFailureSwallowed ==
    /\ (ProbedAll /\ RowQueries # {} /\ FailingQueries # {}) =>
          /\ result.ret = Ok
          /\ \E i \in RowQueries :
                /\ src.names = ProbedNames(Columns(src.queries[i]))
                /\ src.schema = ProbedTypes(Columns(src.queries[i]))
    /\ (result.op = "fetch_metadata" /\ result.ret.kind = "Other_LastError") =>
          /\ RowQueries = {}
          /\ \E i \in FailingQueries : result.ret.arg = src.queries[i]

\* C14's case: the first query's probe failed, the second query was still
\* probed and its row made fetch_metadata succeed.
C14_Witness ==
    /\ ProbedAll
    /\ Len(src.queries) = 2
    /\ FailingQueries = {1}
    /\ RowQueries = {2}
    /\ result.ret = Ok
    /\ src.names = ProbedNames(Columns(src.queries[2]))

\* C17: whenever fetch_metadata returns an error (no connection from the
\* pool, a LIMIT 1 rewrite that fails, every probe failed, or the describe
\* failed), names and schema are what they were before the call.
C17_ErrorLeavesMetadata ==
    [][\A poolOk, describeOk \in BOOLEAN :
          (fetch_metadata(poolOk, describeOk) /\ result'.ret.status = "Err")
          => /\ src'.names = src.names
             /\ src'.schema = src.schema]_vars

----------------------------------------------------------------------------
(* The partition's and the parser's claims, continued *)

\* The cursor of parser p stands one cell after column c of table row r,
\* which is in its buffer.
CursorJustAfter(p, r, c) ==
    \E ridx \in 0..(Len(p.rowbuf) - 1) :
        /\ p.rowbuf[ridx + 1] = r
        /\ p.current_row * p.ncols + p.current_col = ridx * p.ncols + c + 1

\* C12: on a cell the driver reports absent (SQL NULL), produce::<T> returns
\* an error and produce::<Option<T>> returns None; on a present cell both
\* return its value, the Option one as Some(v); in every one of these cases
\* the call consumes exactly one cell position.
C12_ProduceAbsentCell ==
    [][\A option \in BOOLEAN :
          (produce(option) /\ produced' # produced)
          => LET cell == produced'[Len(produced')]
             IN /\ produced' = Append(produced, cell)
                /\ CursorJustAfter(parser', cell[1], cell[2])
                /\ IF NullCell(cell[1], cell[2])
                   THEN IF option
                        THEN /\ pres'.ret = Ok
                             /\ pres'.value = [kind |-> "None", v |-> 0]
                        ELSE pres'.ret = Err("Other_GetNone", "")
                   ELSE /\ pres'.ret = Ok
                        /\ pres'.value = [kind |-> "Some",
                                          v |-> CellValue(cell[1], cell[2])]]_vars

\* C12's case: produce::<T> has failed on the NULL cell that ends the second
\* row, after three cells that were delivered, and the cursor went past it.
C12_Witness ==
    /\ pres.op = "produce"
    /\ pres.ret = Err("Other_GetNone", "")
    /\ Len(produced) = 4
    /\ produced[4] = <<1, 1>>
    /\ NullCell(1, 1)
    /\ CursorJustAfter(parser, 1, 1)

\* The last produce call returned the final cell of a partition whose
\* prepare() recorded the rows its query yields (at least one), and whose
\* row iterator does not fail.
FinalCellProduced ==
    /\ parser.alive = "live"
    /\ tbl.err_at = 0
    /\ part.nrows >= 1
    /\ part.nrows = ResultRows(tbl)
    /\ parser.ncols >= 1
    /\ pres.op = "produce"
    /\ pres.ret # EOF
    /\ Len(produced) = part.nrows * parser.ncols

\* C15 as stated: after the parser has produced the final cell of a
\* partition of nrows rows, its cursor is current_row = nrows and
\* current_col = 0, and the next produce call refills.
C15_CursorAtNrows ==
    FinalCellProduced =>
        /\ parser.current_row = part.nrows
        /\ parser.current_col = 0
        /\ Underflow(parser)

\* C15, amended: after the parser has produced the final cell of a
\* partition, current_row is the number of rows in its buffer (at most
\* buf_size rows, the rows of the last refill), current_col is 0, and the
\* next produce call refills; current_row is nrows exactly when one refill
\* took in the whole partition.
C15_CursorAtBufferEnd ==
    FinalCellProduced =>
        /\ parser.current_row = Len(parser.rowbuf)
        /\ Len(parser.rowbuf) <= parser.buf_size
        /\ parser.current_col = 0
        /\ Underflow(parser)
        /\ (parser.current_row = part.nrows) <=> (parser.buf_size >= part.nrows)

\* C15's case: three rows of two columns read through a buffer of two rows;
\* after the sixth cell the cursor is at row 1 of the buffer, not at 3.
C15_Witness ==
    /\ FinalCellProduced
    /\ part.nrows = 3
    /\ parser.ncols = 2
    /\ parser.buf_size = 2
    /\ parser.current_row = 1
    /\ parser.current_col = 0

\* C16: the row count prepare() recorded is the number of rows the parser
\* delivers, with or without a LIMIT in the query: a consumer making
\* nrows * ncols produce calls never receives EOF, and the call after
\* them does. Stated for a partition whose prepare() recorded at least one
\* row, with at least one column, a buffer of at least one row and a row
\* iterator that does not fail.
C16_NrowsDelivered ==
    (/\ parser.alive = "live"
     /\ part.nrows >= 1
     /\ tbl.err_at = 0
     /\ parser.ncols >= 1
     /\ parser.buf_size >= 1)
    => /\ Len(produced) <= part.nrows * parser.ncols
       /\ (pres.op = "produce" /\ pres.ret = EOF)
              => Len(produced) = part.nrows * parser.ncols

\* C19: a partition's ncols is the length of the schema it was built with,
\* and neither prepare() nor parser() changes it; nrows is 0 until a
\* prepare() succeeds (it is 0 after construction and only a prepare() that
\* returns Ok changes it); prepare() changes nothing of the partition but
\* nrows, so query, schema, ncols and buf_size stay as they were.
C19_PartitionFrame ==
    [][/\ pres.op = "new" => part.nrows = 0
       /\ part.ncols = Len(part.schema)
       /\ part'.ncols = Len(part'.schema)
       /\ part'.nrows # part.nrows => (pres'.op = "prepare" /\ pres'.ret = Ok)
       /\ \A count \in CountOutcomes :
             prepare(count) =>
                 /\ part' = [part EXCEPT !.nrows = part'.nrows]
                 /\ part'.query = part.query /\ part'.schema = part.schema
                 /\ part'.ncols = part.ncols /\ part'.buf_size = part.buf_size
       /\ \A ok \in BOOLEAN :
             new_parser(ok) => part'.ncols = part.ncols]_vars

\* C19's case: prepare() has succeeded on a partition of two columns and
\* recorded three rows.
C19_Witness ==
    /\ pres.op = "prepare"
    /\ pres.ret = Ok
    /\ part.nrows = 3
    /\ part.ncols = 2
    /\ Len(part.schema) = 2

----------------------------------------------------------------------------
(* ArrowAssoc's claims, continued *)

\* C18: for every native type with an arrow builder, plain or Option, the
\* data type its field declares is the data type of the arrays its builder
\* produces.
C18_FieldMatchesBuilder ==
    (assoc.field # <<>> /\ assoc.builder # <<>>) =>
        assoc.field[1].data_type = BuilderDataType(assoc.builder[1].kind)

====
